---- MODULE Spec2Model ----
(***************************************************************************)
(* Flash write layer of the nRF52 bootloader: the internal page cache and  *)
(* the write router of flash_nrf5x.c, and the W25Q16 external flash driver *)
(* of qspi_flash.c.  Every API function runs to completion on the single   *)
(* control thread, so each call is one action; the answers of the hardware *)
(* (bus errors, busy polls) are inputs of the call.                        *)
(***************************************************************************)
EXTENDS Integers, Sequences, FiniteSets, TLC

(* ------------------------------------------------------------------------ *)
(* Program constants                                                        *)
(* ------------------------------------------------------------------------ *)
\* uint32_t: the model's machine word is 30 bits wide (the model checker's
\* integers end at 2^31 - 1); every address of the memory map is below 2^22
U32 == 2^30
FLASH_PAGE_SIZE == 4096
\* 0xffffffff, the all-ones word
FLASH_CACHE_INVALID_ADDR == U32 - 1
\* 0xFFFFFFFF, the initial and reset value of _qspi_erased_sector
QSPI_ERASED_NONE == U32 - 1
W25Q16_SECTOR_SIZE == 4096
W25Q16_BLOCK_SIZE_64KB == 65536
QSPI_FLASH_SIZE == 2097152
QSPI_XIP_OFFSET == 1048576
\* usb/uf2/uf2cfg.h takes the window of the external flash from the board file
CFG_UF2_QSPI_XIP_OFFSET == QSPI_XIP_OFFSET
CFG_UF2_QSPI_FLASH_SIZE == QSPI_FLASH_SIZE

\* qspi_flash_status_t
QSPI_FLASH_STATUS_SUCCESS == "SUCCESS"
QSPI_FLASH_STATUS_BUSY == "BUSY"
QSPI_FLASH_STATUS_ERROR == "ERROR"
QSPI_FLASH_STATUS_TIMEOUT == "TIMEOUT"

\* timeout budgets handed to qspi_flash_wait_ready, in polling ticks
READY_TIMEOUT == 1000
WRITE_TIMEOUT == 5000
SECTOR_ERASE_TIMEOUT == 5000
BLOCK_ERASE_TIMEOUT == 10000
CHIP_ERASE_TIMEOUT == 60000

(* ------------------------------------------------------------------------ *)
(* Bounds of the model                                                      *)
(* ------------------------------------------------------------------------ *)
\* the chip answers "busy" to at most MaxBusy polls before it is ready,
\* or to every poll (BusyForever)
MaxBusy == 1
BusyForever == -1

(* ------------------------------------------------------------------------ *)
(* Bytes, pages and address arithmetic                                      *)
(* ------------------------------------------------------------------------ *)
ERASED == 255

RECURSIVE BitAnd(_, _)
\* bitwise AND of two bytes: programming NOR flash can only clear bits
BitAnd(a, b) ==
    IF a = 0 \/ b = 0 THEN 0
    ELSE 2 * BitAnd(a \div 2, b \div 2) + (IF a % 2 = 1 /\ b % 2 = 1 THEN 1 ELSE 0)

\* A page of FLASH_PAGE_SIZE bytes, stored as a fill byte `def` and the function
\* `b` from the offsets of the bytes that differ from it to those bytes.
MkPage(def, f) ==
    LET D == {i \in DOMAIN f : f[i] # def} IN [def |-> def, b |-> [i \in D |-> f[i]]]
ByteAt(p, i) == IF i \in DOMAIN p.b THEN p.b[i] ELSE p.def
\* an erased page (all 0xFF) and a zero-initialised buffer
ErasedPage == [def |-> ERASED, b |-> << >>]
ZeroPage == [def |-> 0, b |-> << >>]

\* dst & ~(FLASH_PAGE_SIZE - 1)
PageAlign(a) == a - (a % FLASH_PAGE_SIZE)
\* dst & (FLASH_PAGE_SIZE - 1)
PageOffset(a) == a % FLASH_PAGE_SIZE
\* no alignment: the address as it is
SectorAlign_none(a) == a

\* a & ~(W25Q16_SECTOR_SIZE - 1)
SectorAlign(a) == a - (a % W25Q16_SECTOR_SIZE)

\* a copy that keeps the bytes the buffer already holds where they differ from
\* the fill byte
Overlay_keeping(buf, off, src) ==
    MkPage(buf.def,
           [i \in DOMAIN buf.b \cup {off + k - 1 : k \in 1..Len(src)} |->
               IF i \in DOMAIN buf.b THEN buf.b[i] ELSE src[i - off + 1]])

\* memcpy(_fl_buf + off, src, len)
Overlay(buf, off, src) ==
    MkPage(buf.def,
           [i \in DOMAIN buf.b \cup {off + k - 1 : k \in 1..Len(src)} |->
               IF i >= off /\ i < off + Len(src) THEN src[i - off + 1]
               ELSE ByteAt(buf, i)])

\* what the flash holds after programming `data` over `old`
Programmed(old, data) ==
    MkPage(BitAnd(old.def, data.def),
           [i \in DOMAIN old.b \cup DOMAIN data.b |->
               BitAnd(ByteAt(old, i), ByteAt(data, i))])

(* ------------------------------------------------------------------------ *)
(* The serial bus: one record per command the driver hands to nrfx_qspi     *)
(* ------------------------------------------------------------------------ *)
Cmd(c, a, n, ok) == [cmd |-> c, a |-> a, n |-> n, ok |-> ok]

\* hardware answers during one driver call:
\*   cfg   nrfx_qspi_init succeeds
\*   rdy   number of busy answers of nrfx_qspi_mem_busy_check
\*   cin   index of the first failing command transfer whose result the
\*         driver checks (0: none fails)
\*   qe    the quad-enable bit of status register 2 is already set
\*   bulk  the bulk transfer (nrfx_qspi_write/_read/_erase) succeeds
\*   pre   number of busy answers to the ready-wait before the command
\*   post  number of busy answers to the completion wait
HwOk == [cfg |-> TRUE, rdy |-> 0, cin |-> 0, qe |-> FALSE, bulk |-> TRUE,
         pre |-> 0, post |-> 0]

IsBusyAt(b, k) == b = BusyForever \/ k < b

\* qspi_flash_is_busy on poll number k (from 0): bit 0 of status register 1
qspi_flash_is_busy(b, k) == IsBusyAt(b, k)

\* a wait without a budget check: it reports the chip ready when the budget is
\* spent
qspi_flash_wait_ready_patient(timeout_ms, b) ==
    IF ~qspi_flash_is_busy(b, b) /\ (timeout_ms = 0 \/ b < timeout_ms)
    THEN [status |-> QSPI_FLASH_STATUS_SUCCESS, polls |-> b + 1]
    ELSE [status |-> QSPI_FLASH_STATUS_SUCCESS, polls |-> timeout_ms]

\* qspi_flash_wait_ready: the loop polls the status register; every busy answer
\* takes one tick off timeout_ms and the loop gives up when the budget reaches 0.
\* With b busy answers ahead the loop ends at poll b + 1 (ready) or at poll
\* timeout_ms (budget spent), whichever comes first.
qspi_flash_wait_ready(timeout_ms, b) ==
    IF ~qspi_flash_is_busy(b, b) /\ (timeout_ms = 0 \/ b < timeout_ms)
    THEN [status |-> QSPI_FLASH_STATUS_SUCCESS, polls |-> b + 1]
    ELSE [status |-> QSPI_FLASH_STATUS_TIMEOUT, polls |-> timeout_ms]

Poll(w) == Cmd("read_status", 0, w.polls, w.status = QSPI_FLASH_STATUS_SUCCESS)

\* qspi_flash_write_enable: command transfer number n of the call
qspi_flash_write_enable(hw, n) ==
    IF hw.cin = n THEN QSPI_FLASH_STATUS_ERROR ELSE QSPI_FLASH_STATUS_SUCCESS

\* qspi_wait_ready: at most 1000 polls of nrfx_qspi_mem_busy_check, no result
qspi_wait_ready(hw) ==
    Cmd("mem_busy_check", 0,
        IF hw.rdy # BusyForever /\ hw.rdy < 1000 THEN hw.rdy + 1 ELSE 1000, TRUE)

\* qspi_flash_configure_quad_mode
qspi_flash_configure_quad_mode(hw) ==
    LET rd1 == Cmd("read_status1", 0, 0, hw.cin # 1)
        rd2 == Cmd("read_status2", 0, 0, hw.cin # 2)
        wen == Cmd("write_enable", 0, 0, hw.cin # 3)
        wst == Cmd("write_status", 0, 0, hw.cin # 4)
        w   == qspi_flash_wait_ready(READY_TIMEOUT, hw.post)
    IN  IF hw.cin = 1 THEN [ret |-> QSPI_FLASH_STATUS_ERROR, bus |-> <<rd1>>]
        ELSE IF hw.cin = 2 THEN [ret |-> QSPI_FLASH_STATUS_ERROR, bus |-> <<rd1, rd2>>]
        ELSE IF hw.qe THEN [ret |-> QSPI_FLASH_STATUS_SUCCESS, bus |-> <<rd1, rd2>>]
        ELSE IF hw.cin = 3
             THEN [ret |-> QSPI_FLASH_STATUS_ERROR, bus |-> <<rd1, rd2, wen>>]
        ELSE IF hw.cin = 4
             THEN [ret |-> QSPI_FLASH_STATUS_ERROR, bus |-> <<rd1, rd2, wen, wst>>]
        ELSE [ret |-> w.status, bus |-> <<rd1, rd2, wen, wst, Poll(w)>>]

\* an init without the early return: every call configures the bus again
qspi_flash_init_again(gi, hw) ==
    LET cfg  == Cmd("nrfx_qspi_init", 0, 0, hw.cfg)
        xip  == Cmd("xip_offset_set", QSPI_XIP_OFFSET, 0, TRUE)
        quad == qspi_flash_configure_quad_mode(hw)
    IN  IF ~hw.cfg
        THEN [ret |-> QSPI_FLASH_STATUS_ERROR, bus |-> <<cfg>>, gi |-> gi]
        ELSE [ret |-> QSPI_FLASH_STATUS_SUCCESS,
              bus |-> <<cfg, xip, qspi_wait_ready(hw)>> \o quad.bus,
              gi  |-> TRUE]

\* an init that gives up when the quad-mode sequence fails
qspi_flash_init_strict(gi, hw) ==
    LET cfg  == Cmd("nrfx_qspi_init", 0, 0, hw.cfg)
        xip  == Cmd("xip_offset_set", QSPI_XIP_OFFSET, 0, TRUE)
        quad == qspi_flash_configure_quad_mode(hw)
    IN  IF gi THEN [ret |-> QSPI_FLASH_STATUS_SUCCESS, bus |-> << >>, gi |-> gi]
        ELSE IF ~hw.cfg
             THEN [ret |-> QSPI_FLASH_STATUS_ERROR, bus |-> <<cfg>>, gi |-> gi]
        ELSE [ret |-> quad.ret,
              bus |-> <<cfg, xip, qspi_wait_ready(hw)>> \o quad.bus,
              gi  |-> quad.ret = QSPI_FLASH_STATUS_SUCCESS]

\* qspi_flash_init, called with g_qspi_initialized = gi
qspi_flash_init(gi, hw) ==
    LET cfg  == Cmd("nrfx_qspi_init", 0, 0, hw.cfg)
        xip  == Cmd("xip_offset_set", QSPI_XIP_OFFSET, 0, TRUE)
        quad == qspi_flash_configure_quad_mode(hw)
    IN  IF gi THEN [ret |-> QSPI_FLASH_STATUS_SUCCESS, bus |-> << >>, gi |-> gi]
        ELSE IF ~hw.cfg
             THEN [ret |-> QSPI_FLASH_STATUS_ERROR, bus |-> <<cfg>>, gi |-> gi]
        ELSE [ret |-> QSPI_FLASH_STATUS_SUCCESS,
              bus |-> <<cfg, xip, qspi_wait_ready(hw)>> \o quad.bus,
              gi  |-> TRUE]

\* qspi_flash_deinit
qspi_flash_deinit(gi) ==
    IF gi THEN [bus |-> <<Cmd("nrfx_qspi_uninit", 0, 0, TRUE)>>, gi |-> FALSE]
    ELSE [bus |-> << >>, gi |-> gi]

\* the null pointer (no buffer)
NULL == <<-1>>

\* length after "if (address + length > QSPI_FLASH_SIZE) length = ..." (uint32_t)
ClampLength(address, length) ==
    IF (address + length) % U32 > QSPI_FLASH_SIZE
    THEN (QSPI_FLASH_SIZE - address) % U32 ELSE length

\* qspi_flash_write
qspi_flash_write(gi, address, data, length, hw) ==
    LET n   == ClampLength(address, length)
        w1  == qspi_flash_wait_ready(READY_TIMEOUT, hw.pre)
        en  == qspi_flash_write_enable(hw, 1)
        wen == Cmd("write_enable", 0, 0, en = QSPI_FLASH_STATUS_SUCCESS)
        wr  == Cmd("write", address, n, hw.bulk)
        w2  == qspi_flash_wait_ready(WRITE_TIMEOUT, hw.post)
    IN  IF ~gi \/ data = NULL \/ length = 0
        THEN [ret |-> QSPI_FLASH_STATUS_ERROR, bus |-> << >>]
        ELSE IF address >= QSPI_FLASH_SIZE
             THEN [ret |-> QSPI_FLASH_STATUS_ERROR, bus |-> << >>]
        ELSE IF w1.status # QSPI_FLASH_STATUS_SUCCESS
             THEN [ret |-> w1.status, bus |-> <<Poll(w1)>>]
        ELSE IF en # QSPI_FLASH_STATUS_SUCCESS
             THEN [ret |-> en, bus |-> <<Poll(w1), wen>>]
        ELSE IF ~hw.bulk
             THEN [ret |-> QSPI_FLASH_STATUS_ERROR, bus |-> <<Poll(w1), wen, wr>>]
        ELSE [ret |-> w2.status, bus |-> <<Poll(w1), wen, wr, Poll(w2)>>]

\* qspi_flash_erase_sector
qspi_flash_erase_sector(gi, addr, hw) ==
    LET address == (addr \div W25Q16_SECTOR_SIZE) * W25Q16_SECTOR_SIZE
        w1  == qspi_flash_wait_ready(READY_TIMEOUT, hw.pre)
        en  == qspi_flash_write_enable(hw, 1)
        wen == Cmd("write_enable", 0, 0, en = QSPI_FLASH_STATUS_SUCCESS)
        er  == Cmd("erase_4KB", address, W25Q16_SECTOR_SIZE, hw.bulk)
        w2  == qspi_flash_wait_ready(SECTOR_ERASE_TIMEOUT, hw.post)
    IN  IF ~gi THEN [ret |-> QSPI_FLASH_STATUS_ERROR, bus |-> << >>]
        ELSE IF address >= QSPI_FLASH_SIZE
             THEN [ret |-> QSPI_FLASH_STATUS_ERROR, bus |-> << >>]
        ELSE IF w1.status # QSPI_FLASH_STATUS_SUCCESS
             THEN [ret |-> w1.status, bus |-> <<Poll(w1)>>]
        ELSE IF en # QSPI_FLASH_STATUS_SUCCESS
             THEN [ret |-> en, bus |-> <<Poll(w1), wen>>]
        ELSE IF ~hw.bulk
             THEN [ret |-> QSPI_FLASH_STATUS_ERROR, bus |-> <<Poll(w1), wen, er>>]
        ELSE [ret |-> w2.status, bus |-> <<Poll(w1), wen, er, Poll(w2)>>]

\* a chip erase that does not wait for the chip to be ready first
qspi_flash_chip_erase_blind(gi, hw) ==
    LET en  == qspi_flash_write_enable(hw, 1)
        wen == Cmd("write_enable", 0, 0, en = QSPI_FLASH_STATUS_SUCCESS)
        er  == Cmd("erase_ALL", 0, QSPI_FLASH_SIZE, hw.bulk)
        w2  == qspi_flash_wait_ready(CHIP_ERASE_TIMEOUT, hw.post)
    IN  IF ~gi THEN [ret |-> QSPI_FLASH_STATUS_ERROR, bus |-> << >>]
        ELSE IF en # QSPI_FLASH_STATUS_SUCCESS
             THEN [ret |-> en, bus |-> <<wen>>]
        ELSE IF ~hw.bulk
             THEN [ret |-> QSPI_FLASH_STATUS_ERROR, bus |-> <<wen, er>>]
        ELSE [ret |-> w2.status, bus |-> <<wen, er, Poll(w2)>>]

\* qspi_flash_chip_erase
qspi_flash_chip_erase(gi, hw) ==
    LET w1  == qspi_flash_wait_ready(READY_TIMEOUT, hw.pre)
        en  == qspi_flash_write_enable(hw, 1)
        wen == Cmd("write_enable", 0, 0, en = QSPI_FLASH_STATUS_SUCCESS)
        er  == Cmd("erase_ALL", 0, QSPI_FLASH_SIZE, hw.bulk)
        w2  == qspi_flash_wait_ready(CHIP_ERASE_TIMEOUT, hw.post)
    IN  IF ~gi THEN [ret |-> QSPI_FLASH_STATUS_ERROR, bus |-> << >>]
        ELSE IF w1.status # QSPI_FLASH_STATUS_SUCCESS
             THEN [ret |-> w1.status, bus |-> <<Poll(w1)>>]
        ELSE IF en # QSPI_FLASH_STATUS_SUCCESS
             THEN [ret |-> en, bus |-> <<Poll(w1), wen>>]
        ELSE IF ~hw.bulk
             THEN [ret |-> QSPI_FLASH_STATUS_ERROR, bus |-> <<Poll(w1), wen, er>>]
        ELSE [ret |-> w2.status, bus |-> <<Poll(w1), wen, er, Poll(w2)>>]

\* hardware answers of iteration i of a loop: hws[i], and no fault beyond it
HwAt(hws, i) == IF i \in DOMAIN hws THEN hws[i] ELSE HwOk

RECURSIVE erase_block_loop(_, _, _, _, _)
\* the while loop of qspi_flash_erase_block, from iteration i on
erase_block_loop(address, size, hws, i, bus) ==
    LET hw  == HwAt(hws, i)
        block_size == IF size >= W25Q16_BLOCK_SIZE_64KB
                      THEN W25Q16_BLOCK_SIZE_64KB ELSE size
        w1  == qspi_flash_wait_ready(READY_TIMEOUT, hw.pre)
        en  == qspi_flash_write_enable(hw, 1)
        wen == Cmd("write_enable", 0, 0, en = QSPI_FLASH_STATUS_SUCCESS)
        er  == Cmd("erase_64KB", address, W25Q16_BLOCK_SIZE_64KB, hw.bulk)
        w2  == qspi_flash_wait_ready(BLOCK_ERASE_TIMEOUT, hw.post)
    IN  IF ~(size > 0) THEN [ret |-> QSPI_FLASH_STATUS_SUCCESS, bus |-> bus]
        ELSE IF w1.status # QSPI_FLASH_STATUS_SUCCESS
             THEN [ret |-> w1.status, bus |-> bus \o <<Poll(w1)>>]
        ELSE IF en # QSPI_FLASH_STATUS_SUCCESS
             THEN [ret |-> en, bus |-> bus \o <<Poll(w1), wen>>]
        ELSE IF ~hw.bulk
             THEN [ret |-> QSPI_FLASH_STATUS_ERROR, bus |-> bus \o <<Poll(w1), wen, er>>]
        ELSE IF w2.status # QSPI_FLASH_STATUS_SUCCESS
             THEN [ret |-> w2.status, bus |-> bus \o <<Poll(w1), wen, er, Poll(w2)>>]
        ELSE erase_block_loop((address + block_size) % U32, size - block_size, hws,
                              i + 1, bus \o <<Poll(w1), wen, er, Poll(w2)>>)

\* qspi_flash_erase_block
qspi_flash_erase_block(gi, address, size, hws) ==
    IF ~gi THEN [ret |-> QSPI_FLASH_STATUS_ERROR, bus |-> << >>]
    ELSE IF address >= QSPI_FLASH_SIZE
         THEN [ret |-> QSPI_FLASH_STATUS_ERROR, bus |-> << >>]
    ELSE erase_block_loop(address, size, hws, 1, << >>)

\* a read that does not look at the driver's flag
qspi_flash_read_unchecked(gi, address, data, length, hw) ==
    LET n  == ClampLength(address, length)
        rd == Cmd("read", address, n, hw.bulk)
    IN  IF data = NULL \/ length = 0
        THEN [ret |-> QSPI_FLASH_STATUS_ERROR, bus |-> << >>]
        ELSE IF address >= QSPI_FLASH_SIZE
             THEN [ret |-> QSPI_FLASH_STATUS_ERROR, bus |-> << >>]
        ELSE IF ~hw.bulk THEN [ret |-> QSPI_FLASH_STATUS_ERROR, bus |-> <<rd>>]
        ELSE [ret |-> QSPI_FLASH_STATUS_SUCCESS, bus |-> <<rd>>]

\* qspi_flash_read
qspi_flash_read(gi, address, data, length, hw) ==
    LET n  == ClampLength(address, length)
        rd == Cmd("read", address, n, hw.bulk)
    IN  IF ~gi \/ data = NULL \/ length = 0
        THEN [ret |-> QSPI_FLASH_STATUS_ERROR, bus |-> << >>]
        ELSE IF address >= QSPI_FLASH_SIZE
             THEN [ret |-> QSPI_FLASH_STATUS_ERROR, bus |-> << >>]
        ELSE IF ~hw.bulk THEN [ret |-> QSPI_FLASH_STATUS_ERROR, bus |-> <<rd>>]
        ELSE [ret |-> QSPI_FLASH_STATUS_SUCCESS, bus |-> <<rd>>]

(* ------------------------------------------------------------------------ *)
(* State                                                                    *)
(* ------------------------------------------------------------------------ *)
VARIABLES
    _fl_addr,             \* page held by the page cache, or FLASH_CACHE_INVALID_ADDR
    _fl_buf,              \* the page buffer
    flash,                \* memory-mapped flash, page address -> page contents
    _qspi_erased_sector,  \* the router's one-entry erase cache
    qspi_initialized,     \* the router's static flag
    g_qspi_initialized,   \* the driver's flag
    cur,                  \* the API call that ran last, with all it issued
    prev,                 \* what the API call before it did
    expect                \* history: the page as loaded, with the writes since

vars == <<_fl_addr, _fl_buf, flash, _qspi_erased_sector, qspi_initialized,
          g_qspi_initialized, cur, prev, expect>>

\* one call of a driver function, one call of an internal-flash primitive
Call(fn, addr, ret, bus) == [fn |-> fn, addr |-> addr, ret |-> ret, bus |-> bus]
Nv(fn, addr, data) == [fn |-> fn, addr |-> addr, data |-> data]

\* one call of an API function: arguments, the erase cache it found, the driver
\* calls and primitive calls it made in order, and the value it returned
Api(op, dst, src, need_erase, pre, calls, nvmc, ret) ==
    [op |-> op, dst |-> dst, src |-> src, need_erase |-> need_erase, pre |-> pre,
     calls |-> calls, nvmc |-> nvmc, ret |-> ret]

NoCall == Api("boot", 0, << >>, FALSE, QSPI_ERASED_NONE, << >>, << >>, "void")

\* the driver calls of API call c to function fn, in order
CallsTo(c, fn) == SelectSeq(c.calls, LAMBDA d : d.fn = fn)
\* every driver call of c returned success
AllSucceeded(c) ==
    \A i \in DOMAIN c.calls : c.calls[i].ret \in {QSPI_FLASH_STATUS_SUCCESS, "void"}

\* what is kept of a call once the next one runs
Summary(c) ==
    [op |-> c.op, dst |-> c.dst, len |-> Len(c.src), need_erase |-> c.need_erase,
     pre |-> c.pre, ret |-> c.ret, ok |-> AllSucceeded(c),
     erases |-> [i \in DOMAIN CallsTo(c, "qspi_flash_erase_sector") |->
                   CallsTo(c, "qspi_flash_erase_sector")[i].addr],
     writes |-> Len(CallsTo(c, "qspi_flash_write"))]

RECURSIVE BusOf(_)
\* the bus commands of a sequence of driver calls, in order
BusOf(calls) == IF calls = << >> THEN << >> ELSE Head(calls).bus \o BusOf(Tail(calls))

State == [fl_addr |-> _fl_addr, fl_buf |-> _fl_buf, flash |-> flash,
          erased |-> _qspi_erased_sector, qi |-> qspi_initialized,
          gi |-> g_qspi_initialized]

(* ------------------------------------------------------------------------ *)
(* flash_nrf5x.c                                                            *)
(* ------------------------------------------------------------------------ *)
\* the comparison lost: every flush of a cached page programs it
PageDiffers_always(buf, page) == TRUE

\* memcmp(_fl_buf, (void *) _fl_addr, FLASH_PAGE_SIZE) != 0
PageDiffers(buf, page) == buf # page

\* a flush that never erases: a modified page is programmed over the old bytes
flash_nrf5x_flush_noerase(st, need_erase) ==
    LET addr  == st.fl_addr
        write == Nv("nrfx_nvmc_words_write", addr, st.fl_buf)
    IN  IF addr = FLASH_CACHE_INVALID_ADDR THEN [st |-> st, nvmc |-> << >>]
        ELSE IF PageDiffers(st.fl_buf, st.flash[addr])
             THEN [st   |-> [st EXCEPT !.fl_addr = FLASH_CACHE_INVALID_ADDR,
                                       !.flash[addr] = Programmed(st.flash[addr], st.fl_buf)],
                   nvmc |-> <<write>>]
        ELSE [st |-> [st EXCEPT !.fl_addr = FLASH_CACHE_INVALID_ADDR], nvmc |-> << >>]

\* a flush that keeps the page cached
flash_nrf5x_flush_keeping(st, need_erase) ==
    LET addr   == st.fl_addr
        erase  == Nv("nrfx_nvmc_page_erase", addr, ErasedPage)
        write  == Nv("nrfx_nvmc_words_write", addr, st.fl_buf)
        erased == IF need_erase THEN [st.flash EXCEPT ![addr] = ErasedPage]
                  ELSE st.flash
    IN  IF addr = FLASH_CACHE_INVALID_ADDR THEN [st |-> st, nvmc |-> << >>]
        ELSE IF PageDiffers(st.fl_buf, st.flash[addr])
             THEN [st   |-> [st EXCEPT !.flash = [erased EXCEPT ![addr] =
                                                  Programmed(erased[addr], st.fl_buf)]],
                   nvmc |-> (IF need_erase THEN <<erase>> ELSE << >>) \o <<write>>]
        ELSE [st |-> st, nvmc |-> << >>]

\* flash_nrf5x_flush on state st: the new state and the primitives called
flash_nrf5x_flush(st, need_erase) ==
    LET addr   == st.fl_addr
        erase  == Nv("nrfx_nvmc_page_erase", addr, ErasedPage)
        write  == Nv("nrfx_nvmc_words_write", addr, st.fl_buf)
        erased == IF need_erase THEN [st.flash EXCEPT ![addr] = ErasedPage]
                  ELSE st.flash
    IN  IF addr = FLASH_CACHE_INVALID_ADDR THEN [st |-> st, nvmc |-> << >>]
        ELSE IF PageDiffers(st.fl_buf, st.flash[addr])
             THEN [st   |-> [st EXCEPT !.fl_addr = FLASH_CACHE_INVALID_ADDR,
                                       !.flash = [erased EXCEPT ![addr] =
                                                  Programmed(erased[addr], st.fl_buf)]],
                   nvmc |-> (IF need_erase THEN <<erase>> ELSE << >>) \o <<write>>]
        ELSE [st |-> [st EXCEPT !.fl_addr = FLASH_CACHE_INVALID_ADDR], nvmc |-> << >>]

\* the upper end of the window taken inclusive
InQspiRange_inclusive(dst) ==
    dst >= CFG_UF2_QSPI_XIP_OFFSET
    /\ dst <= CFG_UF2_QSPI_XIP_OFFSET + CFG_UF2_QSPI_FLASH_SIZE

\* dst >= CFG_UF2_QSPI_XIP_OFFSET && dst < CFG_UF2_QSPI_XIP_OFFSET + CFG_UF2_QSPI_FLASH_SIZE
InQspiRange(dst) ==
    dst >= CFG_UF2_QSPI_XIP_OFFSET
    /\ dst < CFG_UF2_QSPI_XIP_OFFSET + CFG_UF2_QSPI_FLASH_SIZE

\* the erase decision without the cache: every chunk with need_erase erases
MustErase_uncached(need_erase, sector_addr, erased) == need_erase

\* if (need_erase) ... if (sector_addr != _qspi_erased_sector)
MustErase(need_erase, sector_addr, erased) ==
    need_erase /\ sector_addr # erased

\* the cache update lost: the erased sector is never recorded
ErasedAfter_never(erased, sector_addr, erase_status) == erased

\* the cache updated before the status check: a failed erase is recorded too
ErasedAfter_always(erased, sector_addr, erase_status) == sector_addr

\* the value of _qspi_erased_sector after qspi_flash_erase_sector returned
\* erase_status for sector_addr
ErasedAfter(erased, sector_addr, erase_status) ==
    IF erase_status # QSPI_FLASH_STATUS_SUCCESS THEN erased ELSE sector_addr

\* the external branch of flash_nrf5x_write
WriteQspi(st, dst, src, need_erase, hi, he, hw) ==
    LET ini    == qspi_flash_init(st.gi, hi)
        icall  == IF st.qi THEN << >>
                  ELSE <<Call("qspi_flash_init", 0, ini.ret, ini.bus)>>
        gi     == IF st.qi THEN st.gi ELSE ini.gi
        sector_addr == SectorAlign(dst - CFG_UF2_QSPI_XIP_OFFSET)
        er     == qspi_flash_erase_sector(gi, sector_addr, he)
        ecall  == Call("qspi_flash_erase_sector", sector_addr, er.ret, er.bus)
        wr     == qspi_flash_write(gi, dst - CFG_UF2_QSPI_XIP_OFFSET, src, Len(src), hw)
        wcall  == Call("qspi_flash_write", dst - CFG_UF2_QSPI_XIP_OFFSET, wr.ret, wr.bus)
    IN  IF ~st.qi /\ ini.ret # QSPI_FLASH_STATUS_SUCCESS
        THEN [st |-> [st EXCEPT !.gi = gi], calls |-> icall, nvmc |-> << >>]
        ELSE IF MustErase(need_erase, sector_addr, st.erased)
             THEN IF er.ret # QSPI_FLASH_STATUS_SUCCESS
                  THEN [st |-> [st EXCEPT !.qi = TRUE, !.gi = gi,
                                          !.erased = ErasedAfter(st.erased, sector_addr, er.ret)],
                        calls |-> icall \o <<ecall>>, nvmc |-> << >>]
                  ELSE [st |-> [st EXCEPT !.qi = TRUE, !.gi = gi,
                                          !.erased = ErasedAfter(st.erased, sector_addr, er.ret)],
                        calls |-> icall \o <<ecall, wcall>>, nvmc |-> << >>]
        ELSE [st |-> [st EXCEPT !.qi = TRUE, !.gi = gi],
              calls |-> icall \o <<wcall>>, nvmc |-> << >>]

\* the internal branch without the flush: a write to another page drops the
\* cached one
WritePage_noflush(st, dst, src, need_erase) ==
    LET newAddr == PageAlign(dst)
        st1     == IF newAddr # st.fl_addr
                   THEN [st EXCEPT !.fl_addr = newAddr, !.fl_buf = st.flash[newAddr]]
                   ELSE st
    IN  [st    |-> [st1 EXCEPT !.fl_buf = Overlay(st1.fl_buf, PageOffset(dst), src)],
         calls |-> << >>,
         nvmc  |-> << >>]

\* the internal branch of flash_nrf5x_write
WritePage(st, dst, src, need_erase) ==
    LET newAddr == PageAlign(dst)
        miss    == newAddr # st.fl_addr
        fr      == flash_nrf5x_flush(st, need_erase)
        st1     == IF miss
                   THEN [fr.st EXCEPT !.fl_addr = newAddr, !.fl_buf = fr.st.flash[newAddr]]
                   ELSE st
    IN  [st    |-> [st1 EXCEPT !.fl_buf = Overlay(st1.fl_buf, PageOffset(dst), src)],
         calls |-> << >>,
         nvmc  |-> IF miss THEN fr.nvmc ELSE << >>]

\* the page cache flushed ahead of the range check: a routed write empties it
flash_nrf5x_write_flushing(st, dst, src, need_erase, hi, he, hw) ==
    IF InQspiRange(dst)
    THEN LET f == flash_nrf5x_flush(st, need_erase)
         IN  [WriteQspi(f.st, dst, src, need_erase, hi, he, hw) EXCEPT !.nvmc = f.nvmc]
    ELSE WritePage(st, dst, src, need_erase)

\* flash_nrf5x_write
flash_nrf5x_write(st, dst, src, need_erase, hi, he, hw) ==
    IF InQspiRange(dst) THEN WriteQspi(st, dst, src, need_erase, hi, he, hw)
    ELSE WritePage(st, dst, src, need_erase)

\* a reset that leaves the cache as it is
flash_nrf5x_reset_qspi_erase_cache_noop(st) == st

\* flash_nrf5x_reset_qspi_erase_cache
flash_nrf5x_reset_qspi_erase_cache(st) == [st EXCEPT !.erased = QSPI_ERASED_NONE]

(* ------------------------------------------------------------------------ *)
(* Inputs                                                                   *)
(* ------------------------------------------------------------------------ *)
\* number of internal flash pages the page-cache runs write to
NumPages == 2

OneByte == <<15>>
TwoBytes == <<240, 15>>
TenBytes == <<1, 2, 3, 4, 5, 6, 7, 8, 9, 10>>

IntPageAddrs == {i * FLASH_PAGE_SIZE : i \in 0..(NumPages - 1)}
\* the pages next to the window of the external flash
EdgePageAddrs == {CFG_UF2_QSPI_XIP_OFFSET - FLASH_PAGE_SIZE,
                  CFG_UF2_QSPI_XIP_OFFSET + CFG_UF2_QSPI_FLASH_SIZE}
MemPages == IntPageAddrs \cup EdgePageAddrs

\* chunks for the page cache: each lies within one page, at the first bytes of a
\* page or at the last byte of the first page
PageInputs ==
    {<<p, c>> : p \in IntPageAddrs, c \in {OneByte, TwoBytes}}
    \cup {<<FLASH_PAGE_SIZE - 1, OneByte>>}
\* chunks for the external flash: offsets 0 and 4,090 share sector 0, a chunk at
\* 4,090 or 8,190 runs into the next sector
QspiOffsets == {0, 4090, 8190}
QspiInputs == {<<CFG_UF2_QSPI_XIP_OFFSET + o, TenBytes>> : o \in QspiOffsets}
\* chunks on both sides of the two ends of the window
EdgeInputs ==
    { <<CFG_UF2_QSPI_XIP_OFFSET - 1, OneByte>>,
      <<CFG_UF2_QSPI_XIP_OFFSET, OneByte>>,
      <<CFG_UF2_QSPI_XIP_OFFSET + 4090, TenBytes>>,
      <<CFG_UF2_QSPI_XIP_OFFSET + CFG_UF2_QSPI_FLASH_SIZE - 1, OneByte>>,
      <<CFG_UF2_QSPI_XIP_OFFSET + CFG_UF2_QSPI_FLASH_SIZE, OneByte>> }

\* hardware answers to a program or erase call with one fault: write-enable
\* fails, the transfer fails, the chip stays busy before or after the command
OpFaults ==
    {[HwOk EXCEPT !.cin = 1], [HwOk EXCEPT !.bulk = FALSE],
     [HwOk EXCEPT !.pre = BusyForever], [HwOk EXCEPT !.post = BusyForever]}
\* ... or busy for a while and then ready
OpHw ==
    {HwOk} \cup OpFaults
    \cup {[HwOk EXCEPT !.pre = k] : k \in 1..MaxBusy}
    \cup {[HwOk EXCEPT !.post = k] : k \in 1..MaxBusy}
\* hardware answers to qspi_flash_init
InitFaults ==
    {[HwOk EXCEPT !.cfg = FALSE], [HwOk EXCEPT !.qe = TRUE],
     [HwOk EXCEPT !.rdy = BusyForever], [HwOk EXCEPT !.post = BusyForever]}
    \cup {[HwOk EXCEPT !.cin = k] : k \in 1..4}
InitHw ==
    {HwOk} \cup InitFaults
    \cup {[HwOk EXCEPT !.rdy = k] : k \in 1..MaxBusy}
    \cup {[HwOk EXCEPT !.post = k] : k \in 1..MaxBusy}

(* ------------------------------------------------------------------------ *)
(* Actions: one per API call                                                *)
(* ------------------------------------------------------------------------ *)
\* flash left by an earlier image: the first page holds a programmed byte, the
\* other pages are erased
OldPage == [def |-> ERASED, b |-> (0 :> 15)]

Init ==
    /\ _fl_addr = FLASH_CACHE_INVALID_ADDR
    /\ _fl_buf = ZeroPage
    /\ flash = [p \in MemPages |-> IF p = 0 THEN OldPage ELSE ErasedPage]
    /\ _qspi_erased_sector = QSPI_ERASED_NONE
    /\ qspi_initialized = FALSE
    /\ g_qspi_initialized = FALSE
    /\ cur = NoCall
    /\ prev = Summary(NoCall)
    /\ expect = ZeroPage

\* page with the bytes of src put at offsets off, off + 1, ...: the later write
\* wins
Patch(page, off, src) ==
    [def |-> page.def,
     b   |-> [i \in DOMAIN page.b \cup {off + k : k \in 0..(Len(src) - 1)} |->
                IF i >= off /\ i - off < Len(src) THEN src[i - off + 1]
                ELSE page.b[i]]]

\* the history of the cached page after call c: a write to the page cache adds
\* its bytes to the page as it was loaded (a write to another page loads anew)
Expected(c) ==
    IF c.op = "flash_nrf5x_write" /\ ~InQspiRange(c.dst)
    THEN Patch(IF c.dst - (c.dst % FLASH_PAGE_SIZE) = _fl_addr THEN expect
               ELSE flash[c.dst - (c.dst % FLASH_PAGE_SIZE)],
               c.dst % FLASH_PAGE_SIZE, c.src)
    ELSE expect

\* the state after a call that left st and made calls/nvmc, recorded as c
Becomes(st, calls, c) ==
    /\ _fl_addr' = st.fl_addr
    /\ _fl_buf' = st.fl_buf
    /\ flash' = st.flash
    /\ _qspi_erased_sector' = st.erased
    /\ qspi_initialized' = st.qi
    /\ g_qspi_initialized' = st.gi
    /\ cur' = c
    /\ prev' = Summary(cur)
    /\ expect' = Expected(c)

\* hardware answers to the (up to) three driver calls of one routed write:
\* init, erase_sector, write.  At most one of them meets a fault, and only the
\* calls the router can make are given one.
Scripts(dst, IF_, OF_) ==
    {<<HwOk, HwOk, HwOk>>}
    \cup (IF InQspiRange(dst) /\ ~qspi_initialized
          THEN {<<h, HwOk, HwOk>> : h \in IF_} ELSE {})
    \cup (IF InQspiRange(dst)
          THEN {<<HwOk, h, HwOk>> : h \in OF_} \cup {<<HwOk, HwOk, h>> : h \in OF_}
          ELSE {})

\* flash_nrf5x_write(dst, src, len, need_erase) with <<dst, src>> from In and the
\* faults of the hardware from IF_ (init) and OF_ (erase, program)
Write(In, IF_, OF_) ==
    \E in \in In, need_erase \in BOOLEAN :
      \E h \in Scripts(in[1], IF_, OF_) :
        LET r == flash_nrf5x_write(State, in[1], in[2], need_erase, h[1], h[2], h[3])
        IN  Becomes(r.st, r.calls,
                    Api("flash_nrf5x_write", in[1], in[2], need_erase,
                        _qspi_erased_sector, r.calls, r.nvmc, "void"))

\* flash_nrf5x_flush(need_erase)
Flush ==
    \E need_erase \in BOOLEAN :
        LET r == flash_nrf5x_flush(State, need_erase)
        IN  Becomes(r.st, << >>,
                    Api("flash_nrf5x_flush", 0, << >>, need_erase, _qspi_erased_sector,
                        << >>, r.nvmc, "void"))

\* flash_nrf5x_reset_qspi_erase_cache()
ResetEraseCache ==
    Becomes(flash_nrf5x_reset_qspi_erase_cache(State), << >>,
            Api("flash_nrf5x_reset_qspi_erase_cache", 0, << >>, FALSE,
                _qspi_erased_sector, << >>, << >>, "void"))

\* a driver function called directly with address addr, buffer data and length
\* len, the hardware answering hw; r is its result, gi the driver's flag after it
Driver(fn, addr, data, len, hw, r, gi) ==
    LET calls == <<[fn |-> fn, addr |-> addr, len |-> len, hw |-> hw,
                    ret |-> r.ret, bus |-> r.bus]>>
    IN  Becomes([State EXCEPT !.gi = gi], calls,
                Api(fn, addr, data, FALSE, _qspi_erased_sector, calls, << >>, r.ret))

\* qspi_flash_init()
DrvInit ==
    \E hi \in (IF g_qspi_initialized THEN {HwOk} ELSE InitHw) :
        LET r == qspi_flash_init(g_qspi_initialized, hi)
        IN  Driver("qspi_flash_init", 0, << >>, 0, hi, r, r.gi)

\* qspi_flash_deinit()
DrvDeinit ==
    LET r == qspi_flash_deinit(g_qspi_initialized)
    IN  Driver("qspi_flash_deinit", 0, << >>, 0, HwOk,
               [ret |-> "void", bus |-> r.bus], r.gi)

\* qspi_flash_chip_erase()
DrvChipErase ==
    \E hw \in (IF g_qspi_initialized THEN OpHw ELSE {HwOk}) :
        Driver("qspi_flash_chip_erase", 0, << >>, 0, hw,
               qspi_flash_chip_erase(g_qspi_initialized, hw), g_qspi_initialized)

\* addresses handed to the driver: the first and the last byte of the chip and
\* the first address past it
DrvAddrs == {0, QSPI_FLASH_SIZE - 1, QSPI_FLASH_SIZE}
\* lengths: none, one byte, two bytes, and the largest size_t
DrvLengths == {0, 1, 2, U32 - 1}
\* buffer and length of a transfer: no buffer, or a buffer with a length
DrvBuffers == {<<NULL, 1>>} \cup {<<TenBytes, n>> : n \in DrvLengths}

\* qspi_flash_read(address, data, length)
DrvRead ==
    \E address \in DrvAddrs, b \in DrvBuffers :
      \E hw \in (IF g_qspi_initialized /\ address < QSPI_FLASH_SIZE /\ b[1] # NULL
                      /\ b[2] > 0
                  THEN {HwOk, [HwOk EXCEPT !.bulk = FALSE]} ELSE {HwOk}) :
        Driver("qspi_flash_read", address, b[1], b[2], hw,
               qspi_flash_read(g_qspi_initialized, address, b[1], b[2], hw),
               g_qspi_initialized)

\* qspi_flash_write(address, data, length)
DrvWrite ==
    \E address \in DrvAddrs, b \in DrvBuffers :
      \E hw \in (IF g_qspi_initialized /\ address < QSPI_FLASH_SIZE /\ b[1] # NULL
                      /\ b[2] > 0
                  THEN OpHw ELSE {HwOk}) :
        Driver("qspi_flash_write", address, b[1], b[2], hw,
               qspi_flash_write(g_qspi_initialized, address, b[1], b[2], hw),
               g_qspi_initialized)

\* qspi_flash_erase_sector(address)
DrvEraseSector ==
    \E address \in DrvAddrs \cup {W25Q16_SECTOR_SIZE + 1} :
      \E hw \in (IF g_qspi_initialized /\ address < QSPI_FLASH_SIZE
                  THEN OpHw ELSE {HwOk}) :
        Driver("qspi_flash_erase_sector", address, << >>, 0, hw,
               qspi_flash_erase_sector(g_qspi_initialized, address, hw),
               g_qspi_initialized)

\* sizes handed to qspi_flash_erase_block: nothing, one sector, one block, and
\* one byte more than a block
BlockSizes == {0, W25Q16_SECTOR_SIZE, W25Q16_BLOCK_SIZE_64KB, W25Q16_BLOCK_SIZE_64KB + 1}

\* qspi_flash_erase_block(address, size), from the first block, from the last
\* block and past the chip; the fault, if any, hits iteration k
DrvEraseBlock ==
    \E address \in {0, QSPI_FLASH_SIZE - W25Q16_BLOCK_SIZE_64KB, QSPI_FLASH_SIZE},
       size \in BlockSizes :
      \E hw \in (IF g_qspi_initialized /\ address = 0 /\ size > 0 THEN OpHw ELSE {HwOk}),
         k \in (IF size > W25Q16_BLOCK_SIZE_64KB THEN 1..2 ELSE {1}) :
        Driver("qspi_flash_erase_block", address, << >>, size,
               [i \in 1..k |-> IF i = k THEN hw ELSE HwOk],
               qspi_flash_erase_block(g_qspi_initialized, address, size,
                                      [i \in 1..k |-> IF i = k THEN hw ELSE HwOk]),
               g_qspi_initialized)

\* the write router over both memories
Next ==
    \/ Write(EdgeInputs, {[HwOk EXCEPT !.cfg = FALSE]}, {[HwOk EXCEPT !.cin = 1]})
    \/ Flush
    \/ ResetEraseCache
Spec == Init /\ [][Next]_vars

\* the external flash: the router's external branch and the driver
NextQspi ==
    \/ Write(QspiInputs, InitFaults, OpFaults)
    \/ ResetEraseCache
    \/ DrvInit
    \/ DrvDeinit
    \/ DrvChipErase
    \/ DrvEraseBlock
SpecQspi == Init /\ [][NextQspi]_vars

\* the driver called directly
NextDriver ==
    \/ DrvInit
    \/ DrvDeinit
    \/ DrvRead
    \/ DrvWrite
    \/ DrvEraseSector
    \/ DrvEraseBlock
    \/ DrvChipErase
SpecDriver == Init /\ [][NextDriver]_vars

\* the internal page cache
NextPage ==
    \/ Write(PageInputs, {}, {})
    \/ Flush
SpecPage == Init /\ [][NextPage]_vars

(* ------------------------------------------------------------------------ *)
(* Properties                                                               *)
(* ------------------------------------------------------------------------ *)
\* the window of the external flash, written out
InWindow(dst) ==
    /\ dst >= QSPI_XIP_OFFSET
    /\ dst <= QSPI_XIP_OFFSET + QSPI_FLASH_SIZE - 1
SectorOf(dst) == ((dst - QSPI_XIP_OFFSET) \div 4096) * 4096

IsWrite(c) == c.op = "flash_nrf5x_write"
ExtWrite(c) == IsWrite(c) /\ InWindow(c.dst)
\* the addresses the call handed to qspi_flash_erase_sector, in order
Erases(c) == Summary(c).erases
\* position of the first driver call of cur to fn, 0 if there is none
FirstCall(fn) ==
    IF \E i \in DOMAIN cur.calls : cur.calls[i].fn = fn
    THEN CHOOSE i \in DOMAIN cur.calls :
            /\ cur.calls[i].fn = fn
            /\ \A j \in 1..(i - 1) : cur.calls[j].fn # fn
    ELSE 0
\* cur is a routed write that erased (if it had to) and programmed, every driver
\* call returning success
WroteOk(c) == ExtWrite(c) /\ c.need_erase /\ c.ok /\ c.writes = 1

\* C1: in the scenario of the testable properties (erase cache reset, need_erase
\* set, 10 bytes at offset 4,090 and then 10 bytes at offset 8,190, all hardware
\* operations succeeding) the sectors erased are 0, 4,096 and 8,192, each once.
C1_ScenarioErases ==
    ( /\ WroteOk(prev) /\ prev.pre = QSPI_ERASED_NONE
      /\ prev.dst = QSPI_XIP_OFFSET + 4090 /\ prev.len = 10
      /\ WroteOk(Summary(cur))
      /\ cur.dst = QSPI_XIP_OFFSET + 8190 /\ Len(cur.src) = 10 )
    => LET e == prev.erases \o Erases(cur)
       IN  /\ {e[i] : i \in DOMAIN e} = {0, 4096, 8192}
           /\ Len(e) = 3

\* C2: two consecutive routed writes with need_erase, the first starting from a
\* reset erase cache and every driver call returning success, make exactly one
\* qspi_flash_erase_sector call when their destinations lie in one sector and
\* exactly two, one per sector, when they do not; an erase call always comes
\* before the qspi_flash_write call of its chunk.
C2_EraseCacheHit ==
    /\ ( /\ WroteOk(prev) /\ prev.pre = QSPI_ERASED_NONE
         /\ WroteOk(Summary(cur)) )
       => IF SectorOf(prev.dst) = SectorOf(cur.dst)
          THEN prev.erases = <<SectorOf(prev.dst)>> /\ Erases(cur) = << >>
          ELSE prev.erases = <<SectorOf(prev.dst)>> /\ Erases(cur) = <<SectorOf(cur.dst)>>
    /\ ( ExtWrite(cur) /\ FirstCall("qspi_flash_write") # 0
         /\ FirstCall("qspi_flash_erase_sector") # 0 )
       => FirstCall("qspi_flash_erase_sector") < FirstCall("qspi_flash_write")

\* two chunks at different offsets of sector 0, the second without an erase
C2_Witness ==
    /\ WroteOk(prev) /\ prev.pre = QSPI_ERASED_NONE /\ WroteOk(Summary(cur))
    /\ prev.dst = QSPI_XIP_OFFSET /\ cur.dst = QSPI_XIP_OFFSET + 4090
    /\ Erases(cur) = << >> /\ FirstCall("qspi_flash_write") = 1

\* the driver call of cur at the position FirstCall gives
EraseCall == cur.calls[FirstCall("qspi_flash_erase_sector")]
\* cur is a routed write and the router's initialisation step let it through
PastInit == ExtWrite(cur) /\ qspi_initialized
\* cur called qspi_flash_erase_sector for the sector of its destination and,
\* when that succeeded, recorded the sector and called qspi_flash_write next
ErasedThenWrote ==
    /\ FirstCall("qspi_flash_erase_sector") # 0
    /\ EraseCall.addr = SectorOf(cur.dst)
    /\ EraseCall.ret = QSPI_FLASH_STATUS_SUCCESS
       => /\ _qspi_erased_sector = SectorOf(cur.dst)
          /\ FirstCall("qspi_flash_write") = FirstCall("qspi_flash_erase_sector") + 1

\* C3 (as claimed): every chunk routed to the external flash whose sector differs
\* from last_erased_sector is erased, and the sector recorded on success, before
\* the driver's write, whatever need_erase is.
C3_EraseWhateverNeedErase ==
    (PastInit /\ SectorOf(cur.dst) # cur.pre) => ErasedThenWrote

\* C3 (amended): a chunk routed to the external flash, past the initialisation
\* step, with need_erase set and a sector other than last_erased_sector is
\* erased, and the sector recorded on success, before the driver's write; with
\* need_erase clear, or the sector cached, no erase is issued, the cache is left
\* unchanged and the chunk goes straight to the driver's write.
C3_EraseWhenNeeded ==
    PastInit =>
        IF cur.need_erase /\ SectorOf(cur.dst) # cur.pre
        THEN ErasedThenWrote
        ELSE /\ Erases(cur) = << >>
             /\ _qspi_erased_sector = cur.pre
             /\ FirstCall("qspi_flash_write") # 0

\* the cache held another sector; the chunk's sector was erased, recorded, written
C3_Witness ==
    /\ PastInit /\ cur.need_erase
    /\ cur.pre # QSPI_ERASED_NONE /\ cur.pre # SectorOf(cur.dst)
    /\ _qspi_erased_sector = SectorOf(cur.dst)
    /\ FirstCall("qspi_flash_erase_sector") = 1 /\ FirstCall("qspi_flash_write") = 2

\* C4: the first routed write with need_erase after
\* flash_nrf5x_reset_qspi_erase_cache calls qspi_flash_erase_sector for its
\* sector, whatever the cache held before the reset, and reaches
\* qspi_flash_write only after that erase succeeded.
C4_EraseAfterReset ==
    (prev.op = "flash_nrf5x_reset_qspi_erase_cache" /\ ExtWrite(cur) /\ cur.need_erase)
    => /\ PastInit => FirstCall("qspi_flash_erase_sector") # 0
       /\ FirstCall("qspi_flash_write") # 0
          => /\ FirstCall("qspi_flash_erase_sector") # 0
             /\ FirstCall("qspi_flash_erase_sector") < FirstCall("qspi_flash_write")
             /\ EraseCall.addr = SectorOf(cur.dst)
             /\ EraseCall.ret = QSPI_FLASH_STATUS_SUCCESS

\* the reset dropped the very sector the next chunk goes to, and it is erased again
C4_Witness ==
    /\ prev.op = "flash_nrf5x_reset_qspi_erase_cache"
    /\ ExtWrite(cur) /\ cur.need_erase
    /\ prev.pre = SectorOf(cur.dst)
    /\ Erases(cur) = <<SectorOf(cur.dst)>>
    /\ FirstCall("qspi_flash_write") # 0

\* C5: after a successful qspi_flash_chip_erase or qspi_flash_erase_block, and
\* after qspi_flash_deinit followed by qspi_flash_init, the erase cache holds
\* the sentinel.
C5_CacheInvalidated ==
    ( \/ /\ cur.op \in {"qspi_flash_chip_erase", "qspi_flash_erase_block"}
         /\ cur.ret = QSPI_FLASH_STATUS_SUCCESS
      \/ /\ cur.op = "qspi_flash_init" /\ prev.op = "qspi_flash_deinit" )
    => _qspi_erased_sector = QSPI_ERASED_NONE

\* C6: when qspi_flash_erase_sector returns anything but success the router
\* calls no qspi_flash_write for the chunk and leaves the erase cache as it
\* was; the next routed write with need_erase to that sector calls the erase
\* again.
C6_FailedEraseAborts ==
    /\ ( /\ ExtWrite(cur) /\ FirstCall("qspi_flash_erase_sector") # 0
         /\ EraseCall.ret # QSPI_FLASH_STATUS_SUCCESS )
       => /\ FirstCall("qspi_flash_write") = 0
          /\ _qspi_erased_sector = cur.pre
    /\ ( /\ ExtWrite(prev) /\ prev.erases # << >> /\ prev.writes = 0
         /\ PastInit /\ cur.need_erase /\ SectorOf(cur.dst) = SectorOf(prev.dst) )
       => Erases(cur) = <<SectorOf(cur.dst)>>

\* an erase that timed out, and the retry that erased and wrote
C6_Witness ==
    /\ ExtWrite(prev) /\ prev.erases # << >> /\ prev.writes = 0
    /\ PastInit /\ cur.need_erase /\ SectorOf(cur.dst) = SectorOf(prev.dst)
    /\ EraseCall.ret = QSPI_FLASH_STATUS_SUCCESS
    /\ FirstCall("qspi_flash_write") # 0

\* C7: a routed write that failed (init, erase or the driver's write returned an
\* error or a timeout) returns a value other than a routed write that succeeded.
C7_FailureReturned ==
    ( /\ ExtWrite(prev) /\ prev.ok /\ prev.writes = 1
      /\ ExtWrite(cur) /\ ~AllSucceeded(cur) )
    => cur.ret # prev.ret

\* C8: a write with dst inside [XIP_OFFSET, XIP_OFFSET + FLASH_SIZE) reaches
\* only the external flash driver, at driver address dst - XIP_OFFSET (its
\* sector for the erase), and calls no internal-flash primitive; any other dst
\* reaches only the page cache, which then holds the page of dst with the
\* chunk's bytes at its offset, and makes no driver call.
C8_Routing ==
    IsWrite(cur) =>
        IF InWindow(cur.dst)
        THEN /\ cur.nvmc = << >>
             /\ cur.calls # << >>
             /\ \A i \in DOMAIN cur.calls :
                  /\ cur.calls[i].fn = "qspi_flash_write"
                     => cur.calls[i].addr = cur.dst - QSPI_XIP_OFFSET
                  /\ cur.calls[i].fn = "qspi_flash_erase_sector"
                     => cur.calls[i].addr = SectorOf(cur.dst)
        ELSE /\ cur.calls = << >>
             /\ _fl_addr = cur.dst - (cur.dst % 4096)
             /\ \A k \in 1..Len(cur.src) :
                  ByteAt(_fl_buf, (cur.dst % 4096) + k - 1) = cur.src[k]

\* the last byte of the window went to the driver at address FLASH_SIZE - 1
C8_Witness ==
    /\ IsWrite(cur) /\ cur.dst = QSPI_XIP_OFFSET + QSPI_FLASH_SIZE - 1
    /\ FirstCall("qspi_flash_write") # 0
    /\ cur.calls[FirstCall("qspi_flash_write")].addr = QSPI_FLASH_SIZE - 1

\* C9: a write routed to the external flash leaves cached_page_address,
\* page_buffer and the internal flash as they were and calls no internal-flash
\* primitive; a write to the page cache and a flush leave last_erased_sector
\* and both initialisation flags as they were and make no driver call.
C9_Independent ==
    [][ /\ ExtWrite(cur')
           => /\ _fl_addr' = _fl_addr /\ _fl_buf' = _fl_buf /\ flash' = flash
              /\ cur'.nvmc = << >>
        /\ ((IsWrite(cur') /\ ~InWindow(cur'.dst)) \/ cur'.op = "flash_nrf5x_flush")
           => /\ _qspi_erased_sector' = _qspi_erased_sector
              /\ qspi_initialized' = qspi_initialized
              /\ g_qspi_initialized' = g_qspi_initialized
              /\ cur'.calls = << >> ]_vars

\* a chunk was programmed into the external flash while a modified page stayed
\* cached
C9_Witness ==
    /\ ExtWrite(cur) /\ FirstCall("qspi_flash_write") # 0
    /\ _fl_addr # FLASH_CACHE_INVALID_ADDR
    /\ _fl_buf # flash[_fl_addr]

\* two pages hold the same bytes
SameBytes(p, q) ==
    /\ p.def = q.def
    /\ \A i \in DOMAIN p.b \cup DOMAIN q.b : ByteAt(p, i) = ByteAt(q, i)

\* C10: a flush (called directly or by a write that changes page) that finds no
\* page cached, or the page buffer byte-identical to the flash at
\* cached_page_address, calls neither nrfx_nvmc_page_erase nor
\* nrfx_nvmc_words_write, for either value of need_erase.
C10_IdempotentFlush ==
    [][ (\/ _fl_addr = FLASH_CACHE_INVALID_ADDR
         \/ SameBytes(_fl_buf, flash[_fl_addr]))
        => /\ cur'.nvmc = << >>
           /\ flash' = flash ]_vars

\* a flush with need_erase right after a write to the page cache called nothing
C10_Witness ==
    /\ cur.op = "flash_nrf5x_flush" /\ cur.need_erase
    /\ IsWrite(prev) /\ ~InWindow(prev.dst)
    /\ cur.nvmc = << >>

\* cur is a write that went to the page cache
IntWrite(c) == IsWrite(c) /\ ~InWindow(c.dst)
\* the page of an address
PageOf(dst) == dst - (dst % 4096)
\* the page cache holds a page whose buffer differs from the flash
Dirty == _fl_addr # FLASH_CACHE_INVALID_ADDR /\ ~SameBytes(_fl_buf, flash[_fl_addr])

\* C11: a write to the page already cached calls no flash primitive (and a write
\* that loads a page calls none for that page); flush(need_erase = true) of a
\* cached page whose content was changed calls exactly
\* nrfx_nvmc_page_erase(page) and then nrfx_nvmc_words_write(page, whole page),
\* and the bytes programmed, which the flash then holds, are the page as it was
\* loaded overlaid with all the writes since, in submission order.
C11_SinglePendingPage ==
    [][ /\ IntWrite(cur')
           => /\ \A i \in DOMAIN cur'.nvmc : cur'.nvmc[i].addr # PageOf(cur'.dst)
              /\ PageOf(cur'.dst) = _fl_addr => cur'.nvmc = << >> /\ flash' = flash
        /\ (cur'.op = "flash_nrf5x_flush" /\ cur'.need_erase /\ Dirty)
           => /\ Len(cur'.nvmc) = 2
              /\ cur'.nvmc[1] = [fn |-> "nrfx_nvmc_page_erase", addr |-> _fl_addr,
                                 data |-> ErasedPage]
              /\ cur'.nvmc[2].fn = "nrfx_nvmc_words_write"
              /\ cur'.nvmc[2].addr = _fl_addr
              /\ SameBytes(cur'.nvmc[2].data, expect)
              /\ SameBytes(flash'[_fl_addr], expect) ]_vars

\* two writes to the erased second page, <<240, 15>> and then <<15>> over its
\* first byte, then the flush that erased and programmed 15, 15
C11_Witness ==
    /\ cur.op = "flash_nrf5x_flush" /\ cur.need_erase
    /\ IntWrite(prev) /\ prev.dst = 4096 /\ prev.len = 1
    /\ Len(cur.nvmc) = 2 /\ cur.nvmc[2].addr = 4096
    /\ ByteAt(cur.nvmc[2].data, 0) = 15 /\ ByteAt(cur.nvmc[2].data, 1) = 15
    /\ ByteAt(flash[4096], 1) = 15

\* C12: a write to the page cache whose page differs from a valid
\* cached_page_address P makes one flush of P with P's buffered content (no
\* primitive when P is unchanged, else an erase of P when need_erase is set and
\* one program of P with the buffer as it was), and only then holds the new page:
\* cached_page_address is the new page and the buffer is the new page's flash
\* contents with the chunk on top.
C12_PageCrossingFlush ==
    [][ ( /\ IntWrite(cur') /\ _fl_addr # FLASH_CACHE_INVALID_ADDR
          /\ PageOf(cur'.dst) # _fl_addr )
        => /\ cur'.nvmc =
                IF Dirty
                THEN (IF cur'.need_erase
                      THEN <<[fn |-> "nrfx_nvmc_page_erase", addr |-> _fl_addr,
                              data |-> ErasedPage]>>
                      ELSE << >>)
                     \o <<[fn |-> "nrfx_nvmc_words_write", addr |-> _fl_addr,
                           data |-> _fl_buf]>>
                ELSE << >>
           /\ (Dirty /\ cur'.need_erase) => SameBytes(flash'[_fl_addr], _fl_buf)
           /\ ~Dirty => flash' = flash
           /\ _fl_addr' = PageOf(cur'.dst)
           /\ SameBytes(_fl_buf', Patch(flash'[PageOf(cur'.dst)], cur'.dst % 4096,
                                        cur'.src)) ]_vars

\* a write to the second page flushed the modified first page (erase, program)
\* and the cache holds the second page
C12_Witness ==
    /\ IntWrite(cur) /\ cur.need_erase /\ PageOf(cur.dst) = 4096
    /\ Len(cur.nvmc) = 2 /\ cur.nvmc[1].addr = 0 /\ cur.nvmc[2].addr = 0
    /\ _fl_addr = 4096

\* C13: whenever cached_page_address is valid the page buffer holds the flash
\* contents of that page as read when it was loaded, overlaid in order with
\* every write issued to the page since.
C13_BufferInvariant ==
    _fl_addr # FLASH_CACHE_INVALID_ADDR => SameBytes(_fl_buf, expect)

\* the first page was loaded with its old byte 15, then <<15>> was written over
\* <<240, 15>>, and the last byte of the page was written
C13_Witness ==
    /\ _fl_addr = 0 /\ IntWrite(cur) /\ IntWrite(prev)
    /\ cur.dst = 4095 /\ prev.dst = 0 /\ prev.len = 1
    /\ ByteAt(_fl_buf, 0) = 15 /\ ByteAt(_fl_buf, 1) = 15
    /\ ByteAt(_fl_buf, 4095) = 15 /\ ByteAt(_fl_buf, 2) = 255

\* C14: when flash_nrf5x_flush has returned the page cache is empty, whether the
\* flush skipped, programmed only, or erased and programmed; a flush right
\* after a flush calls no flash primitive and changes no flash.
C14_FlushEmpties ==
    /\ cur.op = "flash_nrf5x_flush" => _fl_addr = FLASH_CACHE_INVALID_ADDR
    /\ (cur.op = "flash_nrf5x_flush" /\ prev.op = "flash_nrf5x_flush")
       => cur.nvmc = << >>

\* a flush without need_erase that programmed only, and left the cache empty
C14_Witness ==
    /\ cur.op = "flash_nrf5x_flush" /\ ~cur.need_erase
    /\ Len(cur.nvmc) = 1 /\ cur.nvmc[1].fn = "nrfx_nvmc_words_write"
    /\ _fl_addr = FLASH_CACHE_INVALID_ADDR

\* the one driver call of a direct call of the driver
Direct == cur.calls[1]
\* the bulk transfers, the program and erase commands of the bus
TransferCmds == {"read", "write"}
ProgramCmds == {"write", "erase_4KB", "erase_64KB", "erase_ALL"}
\* cur is a direct call of qspi_flash_read or qspi_flash_write with a buffer and
\* a length, the driver initialised
Transfer ==
    /\ cur.op \in {"qspi_flash_read", "qspi_flash_write"}
    /\ g_qspi_initialized /\ cur.src # NULL /\ Direct.len > 0

\* C15: with the driver initialised, qspi_flash_read and qspi_flash_write with
\* address >= capacity return an error and issue no bus command; with
\* address < capacity and address + length > capacity the bus transfer they
\* issue has length capacity - address, and they return success when the
\* hardware answers without fault.
C15_ClampOrReject ==
    Transfer =>
        /\ Direct.addr >= 2097152
           => Direct.ret = QSPI_FLASH_STATUS_ERROR /\ Direct.bus = << >>
        /\ (Direct.addr < 2097152 /\ Direct.addr + Direct.len > 2097152)
           => /\ \A i \in DOMAIN Direct.bus :
                   Direct.bus[i].cmd \in TransferCmds
                   => Direct.bus[i].n = 2097152 - Direct.addr
              /\ Direct.hw = HwOk
                 => /\ Direct.ret = QSPI_FLASH_STATUS_SUCCESS
                    /\ \E i \in DOMAIN Direct.bus : Direct.bus[i].cmd \in TransferCmds

\* C16: with the chip busy on every poll, qspi_flash_write,
\* qspi_flash_erase_sector and qspi_flash_chip_erase (driver initialised,
\* arguments in range) return TIMEOUT after at most 1,000 status polls, and the
\* bus has seen nothing but those polls: no write-enable, program or erase.
C16_TimeoutReturned ==
    ( /\ cur.op \in {"qspi_flash_write", "qspi_flash_erase_sector",
                      "qspi_flash_chip_erase"}
      /\ g_qspi_initialized
      /\ cur.op = "qspi_flash_write"
         => cur.src # NULL /\ Direct.len > 0 /\ Direct.addr < 2097152
      /\ cur.op = "qspi_flash_erase_sector" => Direct.addr < 2097152
      /\ Direct.hw.pre = BusyForever )
    => /\ Direct.ret = QSPI_FLASH_STATUS_TIMEOUT
       /\ Len(Direct.bus) = 1
       /\ Direct.bus[1].cmd = "read_status"
       /\ Direct.bus[1].n <= 1000

\* qspi_flash_erase_sector gave up after 1,000 polls of a chip that stays busy
C16_Witness ==
    /\ cur.op = "qspi_flash_erase_sector" /\ g_qspi_initialized
    /\ Direct.hw.pre = BusyForever
    /\ cur.ret = QSPI_FLASH_STATUS_TIMEOUT
    /\ Direct.bus[1].n = 1000

\* cur ran the whole of qspi_flash_init: it began with the bus configuration
RanInit == cur.op = "qspi_flash_init" /\ Direct.bus # << >>
\* the call returned success and issued nothing, and the driver is initialised
InitNoop(c, gi) ==
    /\ c.ret = QSPI_FLASH_STATUS_SUCCESS
    /\ c.calls[1].bus = << >>
    /\ gi

\* C17: while the driver is uninitialised, qspi_flash_read, qspi_flash_write,
\* qspi_flash_erase_sector, qspi_flash_erase_block and qspi_flash_chip_erase
\* return an error and issue no bus command.
C17_UninitialisedRejects ==
    ( /\ cur.op \in {"qspi_flash_read", "qspi_flash_write", "qspi_flash_erase_sector",
                      "qspi_flash_erase_block", "qspi_flash_chip_erase"}
      /\ ~g_qspi_initialized )
    => /\ cur.ret = QSPI_FLASH_STATUS_ERROR
       /\ Direct.bus = << >>

\* a read with a buffer, a length and an address in range, refused after an
\* init whose bus configuration failed
C17_Witness ==
    /\ cur.op = "qspi_flash_read" /\ ~g_qspi_initialized
    /\ prev.op = "qspi_flash_init" /\ prev.ret = QSPI_FLASH_STATUS_ERROR
    /\ cur.src # NULL /\ Direct.len = 2 /\ Direct.addr = 0
    /\ cur.ret = QSPI_FLASH_STATUS_ERROR

\* C18 (as claimed): once qspi_flash_init has succeeded, every further
\* qspi_flash_init call, also one that follows a qspi_flash_deinit of the
\* initialised driver, returns success without issuing anything and leaves the
\* driver initialised.
C18_ReinitAlwaysNoop ==
    [][ ( /\ cur'.op = "qspi_flash_init"
          /\ \/ g_qspi_initialized
             \/ cur.op = "qspi_flash_deinit" /\ Direct.bus # << >> )
        => InitNoop(cur', g_qspi_initialized') ]_vars

\* C18 (amended): a qspi_flash_init call that finds the driver initialised
\* returns success without configuring the bus, setting the XIP offset,
\* polling or running the quad-mode sequence, and leaves the driver
\* initialised; qspi_flash_deinit leaves the driver uninitialised, and the init
\* call that finds it so starts with the bus configuration again.
C18_ReinitWhileReady ==
    [][ /\ (cur'.op = "qspi_flash_init" /\ g_qspi_initialized)
           => InitNoop(cur', g_qspi_initialized')
        /\ cur'.op = "qspi_flash_deinit" => ~g_qspi_initialized'
        /\ (cur'.op = "qspi_flash_init" /\ ~g_qspi_initialized)
           => /\ cur'.calls[1].bus # << >>
              /\ cur'.calls[1].bus[1].cmd = "nrfx_qspi_init" ]_vars

\* an init right after a successful init issued nothing
C18_Witness ==
    /\ cur.op = "qspi_flash_init" /\ prev.op = "qspi_flash_init"
    /\ prev.ret = QSPI_FLASH_STATUS_SUCCESS
    /\ InitNoop(cur, g_qspi_initialized)

\* C19: when the bus configuration of qspi_flash_init succeeds, init returns
\* success and the driver is initialised, whatever the quad-mode sequence did
\* (an error of either status read, of write-enable or of the status write, a
\* timeout of the completion poll); init returns an error only when the bus
\* configuration failed, and then issues nothing more and leaves the driver
\* uninitialised.
C19_QuadNonFatal ==
    RanInit =>
        /\ Direct.bus[1].cmd = "nrfx_qspi_init"
        /\ Direct.bus[1].ok = Direct.hw.cfg
        /\ IF Direct.hw.cfg
           THEN cur.ret = QSPI_FLASH_STATUS_SUCCESS /\ g_qspi_initialized
           ELSE /\ cur.ret = QSPI_FLASH_STATUS_ERROR /\ ~g_qspi_initialized
                /\ Len(Direct.bus) = 1

\* the completion poll of the status write timed out and init succeeded
C19_Witness ==
    /\ RanInit /\ Direct.hw.post = BusyForever
    /\ Direct.bus[Len(Direct.bus)].cmd = "read_status"
    /\ ~Direct.bus[Len(Direct.bus)].ok
    /\ cur.ret = QSPI_FLASH_STATUS_SUCCESS /\ g_qspi_initialized

\* C20: in the bus log of qspi_flash_write, qspi_flash_erase_sector,
\* qspi_flash_erase_block and qspi_flash_chip_erase every program or erase
\* command comes right after a write-enable that succeeded, which comes right
\* after a ready-wait that succeeded, and a command the bus accepted is
\* followed by the completion wait; a ready-wait or write-enable that failed is
\* the last entry of the log.
C20_CommandSequencing ==
    \A j \in DOMAIN cur.calls :
      cur.calls[j].fn \in {"qspi_flash_write", "qspi_flash_erase_sector",
                           "qspi_flash_erase_block", "qspi_flash_chip_erase"}
      => LET bus == cur.calls[j].bus
         IN  \A i \in DOMAIN bus :
               /\ bus[i].cmd \in ProgramCmds
                  => /\ i >= 3
                     /\ bus[i - 2].cmd = "read_status" /\ bus[i - 2].ok
                     /\ bus[i - 1].cmd = "write_enable" /\ bus[i - 1].ok
                     /\ bus[i].ok => i < Len(bus) /\ bus[i + 1].cmd = "read_status"
               /\ (bus[i].cmd \in {"read_status", "write_enable"} /\ ~bus[i].ok)
                  => i = Len(bus)

\* qspi_flash_erase_block erased two blocks, each after its wait and write-enable
C20_Witness ==
    /\ cur.op = "qspi_flash_erase_block" /\ cur.ret = QSPI_FLASH_STATUS_SUCCESS
    /\ Len(Direct.bus) = 8
    /\ Direct.bus[3].cmd = "erase_64KB" /\ Direct.bus[3].a = 0
    /\ Direct.bus[7].cmd = "erase_64KB" /\ Direct.bus[7].a = 65536

\* C21: two consecutive routed writes with need_erase to the same address, both
\* programmed (every driver call returning success, no erase-cache reset and no
\* write to another sector between them): the second erases the sector again
\* before it programs, so that its bytes are not programmed over the first
\* chunk's.
C21_NoProgramOverProgrammed ==
    ( /\ WroteOk(prev) /\ WroteOk(Summary(cur))
      /\ cur.dst = prev.dst )
    => /\ Erases(cur) = <<SectorOf(cur.dst)>>
       /\ FirstCall("qspi_flash_erase_sector") < FirstCall("qspi_flash_write")

\* a value last_erased_sector may hold: the sentinel, or a sector of the chip
ValidErased(s) ==
    \/ s = QSPI_ERASED_NONE
    \/ s % 4096 = 0 /\ s >= 0 /\ s < 2097152
\* the router's calls of qspi_flash_erase_sector in call c
RouterErases(c) ==
    IF IsWrite(c) THEN CallsTo(c, "qspi_flash_erase_sector") ELSE << >>

\* C22: last_erased_sector is the sentinel or a 4,096-aligned address below
\* capacity; it changes only to the sentinel, by the reset, or to a sector for
\* which the router's qspi_flash_erase_sector call in that very write returned
\* success; and a router erase call that returned anything else leaves a cache
\* that does not hold its sector.  Hence the most recent router erase of the
\* recorded sector succeeded.
C22_EraseCacheValid ==
    [][ /\ ValidErased(_qspi_erased_sector')
        /\ _qspi_erased_sector' # _qspi_erased_sector
           => \/ /\ cur'.op = "flash_nrf5x_reset_qspi_erase_cache"
                 /\ _qspi_erased_sector' = QSPI_ERASED_NONE
              \/ /\ RouterErases(cur') # << >>
                 /\ RouterErases(cur')[Len(RouterErases(cur'))].addr = _qspi_erased_sector'
                 /\ RouterErases(cur')[Len(RouterErases(cur'))].ret
                       = QSPI_FLASH_STATUS_SUCCESS
        /\ \A i \in DOMAIN RouterErases(cur') :
             RouterErases(cur')[i].ret # QSPI_FLASH_STATUS_SUCCESS
             => /\ _qspi_erased_sector' # RouterErases(cur')[i].addr
                /\ _qspi_erased_sector' = _qspi_erased_sector ]_vars

\* the erase of sector 4,096 timed out and the cache kept sector 0; the retry
\* erased sector 4,096 and recorded it
C22_Witness ==
    /\ ExtWrite(prev) /\ prev.erases = <<4096>> /\ prev.writes = 0
    /\ prev.pre = 0 /\ cur.pre = 0
    /\ ExtWrite(cur) /\ Erases(cur) = <<4096>>
    /\ EraseCall.ret = QSPI_FLASH_STATUS_SUCCESS
    /\ _qspi_erased_sector = 4096

\* C23: whenever the router's flag qspi_initialized is true the driver's flag
\* g_qspi_initialized is true too.
C23_FlagsAgree ==
    qspi_initialized => g_qspi_initialized

\* C24: for every address below capacity and every length from 1 on, the length
\* qspi_flash_read and qspi_flash_write hand to the bus transfer is at most
\* capacity - address.
C24_ClampAllLengths ==
    (Transfer /\ Direct.addr < 2097152)
    => \A i \in DOMAIN Direct.bus :
         Direct.bus[i].cmd \in TransferCmds
         => Direct.bus[i].a + Direct.bus[i].n <= 2097152

\* the 64KB erase commands of the direct call, in order
BlockErases == SelectSeq(Direct.bus, LAMBDA c : c.cmd = "erase_64KB")

\* C25: qspi_flash_erase_block(address, size) with address below capacity
\* issues its 64KB erase commands at address, address + 64KB, ...,
\* ceil(size / 64KB) of them when it returns success, and each command has an
\* address below capacity and erases only bytes of [address, address + size).
C25_EraseBlockInside ==
    ( /\ cur.op = "qspi_flash_erase_block" /\ g_qspi_initialized
      /\ Direct.addr < 2097152 )
    => /\ \A k \in DOMAIN BlockErases :
            /\ BlockErases[k].a = Direct.addr + (k - 1) * 65536
            /\ BlockErases[k].a < 2097152
            /\ BlockErases[k].ok
               => BlockErases[k].a + BlockErases[k].n <= Direct.addr + Direct.len
       /\ cur.ret = QSPI_FLASH_STATUS_SUCCESS
          => Len(BlockErases) = (Direct.len + 65535) \div 65536

====
